---- MODULE Spec2Model ----
(***************************************************************************)
(* Behaviour-change assistant: barrier classifier, technique selector,     *)
(* intervention generator (src/main_agent.py), feedback log                *)
(* (src/feedback_manager.py) and the page script that drives them          *)
(* (src/aap.py).                                                           *)
(*                                                                         *)
(* Text is modelled as a sequence of one-character strings, so that        *)
(* lower(), strip(), replace() and the substring test "x in y" are          *)
(* computed on characters as Python computes them.                         *)
(***************************************************************************)
EXTENDS Integers, Sequences, FiniteSets, TLC

(***************************************************************************)
(* Bounds of the model.                                                    *)
(***************************************************************************)
MaxRuns == 2
MaxSubmissions == 1
MaxRecords == 2
MaxClock == 1
NumProcs == 2

(***************************************************************************)
(* Program constants.                                                      *)
(***************************************************************************)
MinGoalLen == 5
MinBarrierLen == 10
MinRating == 1
MaxRating == 5

(***************************************************************************)
(* Text literals of the program and of the inputs.                         *)
(***************************************************************************)
T_capability ==
    <<"c", "a", "p", "a", "b", "i", "l", "i", "t", "y">>
T_opportunity ==
    <<"o", "p", "p", "o", "r", "t", "u", "n", "i", "t", "y">>
T_motivation ==
    <<"m", "o", "t", "i", "v", "a", "t", "i", "o", "n">>
T_capab ==
    <<"c", "a", "p", "a", "b">>
T_opportun ==
    <<"o", "p", "p", "o", "r", "t", "u", "n">>
T_placeholder ==
    <<"[", "G", "O", "A", "L", "]">>
T_prefix ==
    <<"L", "e", "t", "'", "s", " ", "w", "o", "r", "k", " ", "o", "n", " ">>
T_sep ==
    <<".", " ">>
T_yes ==
    <<"y", "e", "s">>
T_maybe ==
    <<"m", "a", "y", "b", "e">>
R_Capability ==
    <<"C", "a", "p", "a", "b", "i", "l", "i", "t", "y">>
R_opportunity_ws ==
    <<" ", "o", "p", "p", "o", "r", "t", "u", "n", "i", "t", "y", "\n">>
R_Motivation ==
    <<"M", "o", "t", "i", "v", "a", "t", "i", "o", "n">>
R_both ==
    <<"O", "p", "p", "o", "r", "t", "u", "n", "i", "t", "y", ",", " ", "n", "o", "t", " ", "c", "a", "p", "a", "b", "i", "l", "i", "t", "y">>
R_other ==
    <<"u", "n", "s", "u", "r", "e">>
R_mot_opp ==
    <<"m", "o", "t", "i", "v", "a", "t", "i", "o", "n", "/", "O", "p", "p", "o", "r", "t", "u", "n", "i", "t", "y">>
B_tired ==
    <<"I", "'", "m", " ", "t", "o", "o", " ", "T", "i", "r", "e", "d">>
B_time ==
    <<"n", "o", " ", "t", "i", "m", "e", " ", "a", "t", " ", "a", "l", "l">>
B_short ==
    <<"b", "o", "r", "e", "d">>
G_exercise ==
    <<"e", "x", "e", "r", "c", "i", "s", "e", " ", "m", "o", "r", "e">>
G_study ==
    <<"s", "t", "u", "d", "y", " ", "d", "a", "i", "l", "y">>
G_short ==
    <<"r", "u", "n">>
K_tired ==
    <<"t", "i", "r", "e", "d">>
K_bored ==
    <<"b", "o", "r", "e", "d">>
K_time ==
    <<"t", "i", "m", "e">>
K_how ==
    <<"h", "o", "w">>
K_Upper ==
    <<"N", "o", " ", "T", "i", "m", "e">>
P_pair ==
    <<"T", "r", "y", " ", "p", "a", "i", "r", "i", "n", "g", " ", "[", "G", "O", "A", "L", "]", " ", "w", "i", "t", "h", " ", "s", "o", "m", "e", "t", "h", "i", "n", "g", " ", "f", "u", "n", ".">>
P_plan ==
    <<"P", "l", "a", "n", " ", "[", "G", "O", "A", "L", "]", ",", " ", "t", "h", "e", "n", " ", "d", "o", " ", "[", "G", "O", "A", "L", "]", ".">>
P_small ==
    <<"S", "t", "a", "r", "t", " ", "s", "m", "a", "l", "l", ".">>
P_pair_filled ==
    <<"T", "r", "y", " ", "p", "a", "i", "r", "i", "n", "g", " ", "e", "x", "e", "r", "c", "i", "s", "e", " ", "m", "o", "r", "e", " ", "w", "i", "t", "h", " ", "s", "o", "m", "e", "t", "h", "i", "n", "g", " ", "f", "u", "n", ".">>
N_A ==
    <<"A">>
N_B ==
    <<"B">>
N_C ==
    <<"C">>
N_D ==
    <<"D">>
N_X ==
    <<"X">>
Th_BE ==
    <<"B", "E">>
Th_SDT ==
    <<"S", "D", "T">>
Th_MI ==
    <<"M", "I">>
E_rct ==
    <<"R", "C", "T">>
E_meta ==
    <<"m", "e", "t", "a">>
M_ok ==
    <<" ", "G", "o", " ", "f", "o", "r", " ", "i", "t", "!", " ", "\n">>
W_Yes ==
    <<"Y", "e", "s">>
W_Maybe ==
    <<"M", "a", "y", "b", "e">>
W_No ==
    <<"N", "o">>
H_timestamp ==
    <<"t", "i", "m", "e", "s", "t", "a", "m", "p">>
H_user_goal ==
    <<"u", "s", "e", "r", "_", "g", "o", "a", "l">>
H_user_barrier ==
    <<"u", "s", "e", "r", "_", "b", "a", "r", "r", "i", "e", "r">>
H_target_component ==
    <<"t", "a", "r", "g", "e", "t", "_", "c", "o", "m", "p", "o", "n", "e", "n", "t">>
H_technique_used ==
    <<"t", "e", "c", "h", "n", "i", "q", "u", "e", "_", "u", "s", "e", "d">>
H_theory ==
    <<"t", "h", "e", "o", "r", "y">>
H_rating ==
    <<"r", "a", "t", "i", "n", "g">>
H_would_try ==
    <<"w", "o", "u", "l", "d", "_", "t", "r", "y">>
H_feedback_text ==
    <<"f", "e", "e", "d", "b", "a", "c", "k", "_", "t", "e", "x", "t">>
T_na ==
    <<"n", "/", "a">>
F_nice ==
    <<"o", "k">>

(***************************************************************************)
(* Python string primitives, on character sequences.                       *)
(***************************************************************************)
UpperChars ==
    <<"A", "B", "C", "D", "E", "F", "G", "H", "I", "J", "K", "L", "M",
      "N", "O", "P", "Q", "R", "S", "T", "U", "V", "W", "X", "Y", "Z">>
LowerChars ==
    <<"a", "b", "c", "d", "e", "f", "g", "h", "i", "j", "k", "l", "m",
      "n", "o", "p", "q", "r", "s", "t", "u", "v", "w", "x", "y", "z">>
Whitespace ==
    {" ", "\n"}

\* str.lower() on one character
LowerChar(c) ==
    IF \E i \in 1..Len(UpperChars) : UpperChars[i] = c
    THEN LowerChars[CHOOSE i \in 1..Len(UpperChars) : UpperChars[i] = c]
    ELSE c

\* str.lower()
lower(s) ==
    [i \in 1..Len(s) |-> LowerChar(s[i])]

\* str.strip(): drop leading and trailing whitespace
strip(s) ==
    LET keep == {i \in 1..Len(s) : s[i] \notin Whitespace}
    IN  IF keep = {} THEN <<>>
        ELSE LET first == CHOOSE i \in keep : \A j \in keep : i <= j
                 last == CHOOSE i \in keep : \A j \in keep : j <= i
             IN  SubSeq(s, first, last)

\* sub occurs in s starting at position i
OccursAt(sub, s, i) ==
    /\ i + Len(sub) - 1 <= Len(s)
    /\ SubSeq(s, i, i + Len(sub) - 1) = sub

\* Python's "sub in s"
Contains(sub, s) ==
    \E i \in 1..(Len(s) + 1) : OccursAt(sub, s, i)

RECURSIVE ReplaceFrom(_, _, _, _)
\* the left-to-right scan of str.replace(old, new), from position i
ReplaceFrom(s, old, new, i) ==
    IF i > Len(s) THEN <<>>
    ELSE IF OccursAt(old, s, i)
         THEN new \o ReplaceFrom(s, old, new, i + Len(old))
         ELSE <<s[i]>> \o ReplaceFrom(s, old, new, i + 1)

\* str.replace(old, new), old non-empty
replace(s, old, new) ==
    ReplaceFrom(s, old, new, 1)

(***************************************************************************)
(* The technique catalog (techniques_library.json as loaded).              *)
(***************************************************************************)
TechA ==
    [name |-> N_A, target_component |-> T_motivation,
     barrier_keywords |-> <<K_tired, K_bored>>, prompt_template |-> P_pair,
     theory |-> Th_BE, duration_minutes |-> 5, evidence_base |-> E_rct]
TechB ==
    [name |-> N_B, target_component |-> T_motivation,
     barrier_keywords |-> <<K_Upper, K_time>>, prompt_template |-> P_plan,
     theory |-> Th_SDT, duration_minutes |-> 10, evidence_base |-> E_meta]
TechC ==
    [name |-> N_C, target_component |-> T_capability,
     barrier_keywords |-> <<K_how>>, prompt_template |-> P_small,
     theory |-> Th_MI, duration_minutes |-> 2, evidence_base |-> E_meta]
TechD ==
    [name |-> N_D, target_component |-> T_opportunity,
     barrier_keywords |-> <<>>, prompt_template |-> P_pair,
     theory |-> Th_SDT, duration_minutes |-> 15, evidence_base |-> E_rct]
\* an entry of the data file that lacks its message template
TechX ==
    [name |-> N_X, target_component |-> T_opportunity,
     barrier_keywords |-> <<K_time>>,
     theory |-> Th_MI, duration_minutes |-> 1, evidence_base |-> E_rct]

\* the catalogs _load_techniques can return; <<>> when the file is missing
Catalogs ==
    { <<>>,
      <<TechA>>,
      <<TechB, TechA, TechC>>,
      <<TechC, TechD>>,
      <<TechA, TechX>> }


\* Python's None
None ==
    [is_none |-> TRUE]

HasKey(d, k) ==
    k \in DOMAIN d

WellFormed(tech) ==
    DOMAIN tech = {"name", "target_component", "barrier_keywords",
                   "prompt_template", "theory", "duration_minutes",
                   "evidence_base"}

(***************************************************************************)
(* The text-generation service: a reply is a text or a failure.            *)
(***************************************************************************)
Failure ==
    [fails |-> TRUE, text |-> <<>>]

Reply(t) ==
    [fails |-> FALSE, text |-> t]

ClassifyReplies ==
    {Failure} \cup {Reply(t) : t \in {R_Capability, R_opportunity_ws,
                                      R_Motivation, R_both, R_other,
                                      R_mot_opp, <<>>}}

GenerateReplies ==
    {Failure, Reply(M_ok)}

(***************************************************************************)
(* BehaviorChangeAgent.analyze_barrier: the category computed from the     *)
(* reply to the classification prompt.                                     *)
(***************************************************************************)
\* variant: the lower-cased answer is returned as it is
analyze_barrier_unparsed(reply) ==
    IF reply.fails THEN T_motivation
    ELSE lower(strip(reply.text))

\* variant: 'opportun' is looked for before 'capab'
analyze_barrier_reordered(reply) ==
    IF reply.fails THEN T_motivation
    ELSE LET component == lower(strip(reply.text))
         IN  IF Contains(T_opportun, component) THEN T_opportunity
             ELSE IF Contains(T_capab, component) THEN T_capability
             ELSE T_motivation

\* response.text.strip().lower(), then the tests in the order of the code
analyze_barrier(reply) ==
    IF reply.fails THEN T_motivation
    ELSE LET component == lower(strip(reply.text))
         IN  IF Contains(T_capab, component) THEN T_capability
             ELSE IF Contains(T_opportun, component) THEN T_opportunity
             ELSE T_motivation

\* variant: a failed call is issued again
AfterClassify_retry(reply) ==
    IF reply.fails THEN "analyze" ELSE "select"

\* where run goes once analyze_barrier is left: the except branch returns
\* like the try branch does, the call is not repeated
AfterClassify(reply) ==
    "select"

(***************************************************************************)
(* BehaviorChangeAgent.select_technique.  The loops return an index into   *)
(* the catalog, 0 when the loop ends without returning and -1 when a       *)
(* lookup raises KeyError.                                                 *)
(***************************************************************************)
RECURSIVE AnyKeyword(_, _, _)
\* the inner loop over tech['barrier_keywords']
AnyKeyword(keywords, barrier_lower, k) ==
    IF k > Len(keywords) THEN FALSE
    ELSE IF Contains(keywords[k], barrier_lower) THEN TRUE
    ELSE AnyKeyword(keywords, barrier_lower, k + 1)

RECURSIVE KeywordPass(_, _, _, _)
\* first loop: right component and a matching keyword
KeywordPass(techs, barrier_lower, target, i) ==
    IF i > Len(techs) THEN 0
    ELSE IF ~HasKey(techs[i], "target_component") THEN -1
    ELSE IF techs[i].target_component = target
         THEN IF ~HasKey(techs[i], "barrier_keywords") THEN -1
              ELSE IF AnyKeyword(techs[i].barrier_keywords, barrier_lower, 1)
                   THEN i
                   ELSE KeywordPass(techs, barrier_lower, target, i + 1)
         ELSE KeywordPass(techs, barrier_lower, target, i + 1)

\* variant: the second loop is left out
ComponentPass_skipped(techs, target, i) ==
    0

RECURSIVE ComponentPass(_, _, _)
\* second loop: right component
ComponentPass(techs, target, i) ==
    IF i > Len(techs) THEN 0
    ELSE IF ~HasKey(techs[i], "target_component") THEN -1
    ELSE IF techs[i].target_component = target THEN i
    ELSE ComponentPass(techs, target, i + 1)

\* variant: the last resort gives up
FirstOrNone_none(techs) ==
    None

\* self.techniques[0] if self.techniques else None
FirstOrNone(techs) ==
    IF techs /= <<>> THEN techs[1] ELSE None

\* variant: the barrier text is matched as typed
select_technique_case_sensitive(techs, barrier_text, target) ==
    LET p1 == KeywordPass(techs, barrier_text, target, 1)
        p2 == ComponentPass(techs, target, 1)
    IN  IF p1 = -1 THEN FirstOrNone(techs)
        ELSE IF p1 > 0 THEN techs[p1]
        ELSE IF p2 = -1 THEN FirstOrNone(techs)
        ELSE IF p2 > 0 THEN techs[p2]
        ELSE FirstOrNone(techs)

select_technique(techs, barrier_text, target) ==
    LET barrier_lower == lower(barrier_text)
        p1 == KeywordPass(techs, barrier_lower, target, 1)
        p2 == ComponentPass(techs, target, 1)
    IN  IF p1 = -1 THEN FirstOrNone(techs)
        ELSE IF p1 > 0 THEN techs[p1]
        ELSE IF p2 = -1 THEN FirstOrNone(techs)
        ELSE IF p2 > 0 THEN techs[p2]
        ELSE FirstOrNone(techs)

(***************************************************************************)
(* BehaviorChangeAgent.generate_intervention.                              *)
(***************************************************************************)
\* the metadata both return statements echo
Intervention(text, technique) ==
    [intervention_text |-> text,
     technique_name |-> technique.name,
     theory |-> technique.theory,
     duration_minutes |-> technique.duration_minutes,
     evidence |-> technique.evidence_base,
     target_component |-> technique.target_component]

\* variant: the barrier is interpolated where the goal belongs
FallbackText_barrier(user_goal, technique, barrier_text) ==
    T_prefix \o barrier_text \o T_sep
        \o replace(technique.prompt_template, T_placeholder, user_goal)

\* the except branch: fixed prefix, goal, filled template
FallbackText(user_goal, technique, barrier_text) ==
    T_prefix \o user_goal \o T_sep
        \o replace(technique.prompt_template, T_placeholder, user_goal)

\* the keys read while the prompt is built, before the call
PromptKeys ==
    {"prompt_template", "name", "theory"}

\* building the prompt raises KeyError in the try block and the except block
\* raises it again: the error leaves generate_intervention, no call is made
RaisesBeforeCall(technique) ==
    ~(PromptKeys \subseteq DOMAIN technique)

\* building either result dictionary raises KeyError
RaisesAfterCall(technique) ==
    ~WellFormed(technique)

\* variant: a failed call is not caught
generate_raises_uncaught(technique, reply) ==
    reply.fails \/ RaisesAfterCall(technique)

\* an error leaves generate_intervention: a failed call is caught by the
\* except branch, a KeyError of the dictionaries is raised again by it
generate_raises(technique, reply) ==
    RaisesAfterCall(technique)

\* variant: the except branch echoes the theory as the evidence
generate_intervention_wrong_echo(user_goal, technique, barrier_text, reply) ==
    IF reply.fails
    THEN [Intervention(FallbackText(user_goal, technique, barrier_text),
                       technique) EXCEPT !.evidence = technique.theory]
    ELSE Intervention(strip(reply.text), technique)

generate_intervention(user_goal, technique, barrier_text, reply) ==
    IF reply.fails
    THEN Intervention(FallbackText(user_goal, technique, barrier_text),
                      technique)
    ELSE Intervention(strip(reply.text), technique)

(***************************************************************************)
(* Numbers: str(int), float(str) and float division.  A float is kept as   *)
(* the exact fraction <<numerator, denominator>> in lowest terms.          *)
(***************************************************************************)
DigitChars ==
    <<"0", "1", "2", "3", "4", "5", "6", "7", "8", "9">>

RECURSIVE FormatInt(_)
\* str(n) for n >= 0
FormatInt(n) ==
    IF n < 10 THEN <<DigitChars[n + 1]>>
    ELSE FormatInt(n \div 10) \o <<DigitChars[(n % 10) + 1]>>

IsDigit(c) ==
    \E d \in 1..10 : DigitChars[d] = c

DigitValue(c) ==
    (CHOOSE d \in 1..10 : DigitChars[d] = c) - 1

RECURSIVE DigitsValue(_, _)
DigitsValue(t, acc) ==
    IF t = <<>> THEN acc
    ELSE DigitsValue(Tail(t), acc * 10 + DigitValue(Head(t)))

\* variant: a text that is no number is read as 0
ParseFloat_lenient(t) ==
    LET body == strip(t)
    IN  IF body /= <<>> /\ \A i \in 1..Len(body) : IsDigit(body[i])
        THEN [ok |-> TRUE, value |-> DigitsValue(body, 0)]
        ELSE [ok |-> TRUE, value |-> 0]

\* float(t): surrounding whitespace is ignored, a digit string is its value,
\* any other text of the model raises ValueError
ParseFloat(t) ==
    LET body == strip(t)
    IN  IF body /= <<>> /\ \A i \in 1..Len(body) : IsDigit(body[i])
        THEN [ok |-> TRUE, value |-> DigitsValue(body, 0)]
        ELSE [ok |-> FALSE, value |-> 0]

RECURSIVE Gcd(_, _)
Gcd(a, b) ==
    IF b = 0 THEN a ELSE Gcd(b, a % b)

\* a / b as a float, b > 0
Div(a, b) ==
    LET g == Gcd(a, b) IN <<a \div g, b \div g>>

\* x * k for a float x and an integer k
Times(x, k) ==
    Div(x[1] * k, x[2])

(***************************************************************************)
(* The feedback log: the file is absent, or a sequence of rows, each a     *)
(* sequence of field texts (what csv.writer writes and csv.reader reads).  *)
(* The quoting of a field is taken to give the field back; what is         *)
(* converted on the way is modelled: str() of the rating, float() of the   *)
(* rating text, lower() of the intent, the header row as the dictionary    *)
(* keys.                                                                   *)
(***************************************************************************)
Header ==
    <<H_timestamp, H_user_goal, H_user_barrier, H_target_component,
      H_technique_used, H_theory, H_rating, H_would_try, H_feedback_text>>

\* datetime.now().strftime(...): the text of the clock reading
FormatTime(now) ==
    FormatInt(now)

\* the row save_feedback hands to writer.writerow; csv.writer writes str(rating)
FeedbackRow(now, user_goal, user_barrier, target_component, technique_name, theory, rating, would_try, feedback_text) ==
    <<FormatTime(now), user_goal, user_barrier, target_component,
      technique_name, theory, FormatInt(rating), would_try, feedback_text>>

\* variant: the file is opened with 'w'
AppendRow_truncating(exists, rows, row) ==
    <<row>>

\* open(filename, 'a') followed by writerow: creates the file when absent
AppendRow(exists, rows, row) ==
    IF exists THEN Append(rows, row) ELSE <<row>>

\* csv.DictReader: the first row gives the field names, the others are records
FieldNames(rows) ==
    IF rows = <<>> THEN <<>> ELSE Head(rows)

Records(rows) ==
    IF rows = <<>> THEN <<>> ELSE Tail(rows)

\* key is a key of the dictionaries DictReader builds
HasField(fieldnames, key) ==
    \E i \in 1..Len(fieldnames) : fieldnames[i] = key

\* row[key] of dict(zip(fieldnames, row)): the last column of that name
Field(fieldnames, row, key) ==
    LET cols == {i \in 1..Len(fieldnames) : fieldnames[i] = key /\ i <= Len(row)}
    IN  row[CHOOSE i \in cols : \A j \in cols : j <= i]

RECURSIVE SumRatings(_, _, _)
\* sum(float(row['rating']) for row in rows), left to right
SumRatings(fieldnames, records, i) ==
    IF i > Len(records) THEN 0
    ELSE ParseFloat(Field(fieldnames, records[i], H_rating)).value
            + SumRatings(fieldnames, records, i + 1)

\* variant: the answer is compared as stored
WouldTry_case_sensitive(fieldnames, row) ==
    Field(fieldnames, row, H_would_try) \in {T_yes, T_maybe}

\* row['would_try'].lower() in ['yes', 'maybe']
WouldTry(fieldnames, row) ==
    lower(Field(fieldnames, row, H_would_try)) \in {T_yes, T_maybe}

RECURSIVE CountWouldTry(_, _, _)
CountWouldTry(fieldnames, records, i) ==
    IF i > Len(records) THEN 0
    ELSE (IF WouldTry(fieldnames, records[i]) THEN 1 ELSE 0)
            + CountWouldTry(fieldnames, records, i + 1)

\* the records of one technique, in file order
RECURSIVE RatingsOf(_, _, _, _)
RatingsOf(fieldnames, records, tech, i) ==
    IF i > Len(records) THEN <<>>
    ELSE (IF Field(fieldnames, records[i], H_technique_used) = tech
          THEN <<ParseFloat(Field(fieldnames, records[i], H_rating)).value>>
          ELSE <<>>)
            \o RatingsOf(fieldnames, records, tech, i + 1)

RECURSIVE SumSeq(_)
SumSeq(q) ==
    IF q = <<>> THEN 0 ELSE Head(q) + SumSeq(Tail(q))

\* some lookup or conversion of the computation raises (KeyError, ValueError)
StatisticsRaise(fieldnames, records) ==
    \/ \E k \in {H_rating, H_would_try, H_technique_used, H_target_component} :
          ~HasField(fieldnames, k)
    \/ \E i \in 1..Len(records) :
          ~ParseFloat(Field(fieldnames, records[i], H_rating)).ok

\* FeedbackManager.get_statistics: the value returned for a given file
Statistics(exists, rows) ==
    IF ~exists THEN None
    ELSE LET fieldnames == FieldNames(rows)
             records == Records(rows)
             total_responses == Len(records)
         IN  IF total_responses = 0 THEN None
             ELSE IF StatisticsRaise(fieldnames, records) THEN None
             ELSE LET total_rating == SumRatings(fieldnames, records, 1)
                      would_try_count == CountWouldTry(fieldnames, records, 1)
                      techs == {Field(fieldnames, records[i], H_technique_used) :
                                   i \in 1..total_responses}
                      comps == {Field(fieldnames, records[i], H_target_component) :
                                   i \in 1..total_responses}
                  IN  [total_responses |-> total_responses,
                       average_rating |-> Div(total_rating, total_responses),
                       would_try_percent |->
                           Times(Div(would_try_count, total_responses), 100),
                       technique_performance |->
                           [t \in techs |->
                               LET ratings == RatingsOf(fieldnames, records, t, 1)
                               IN  Div(SumSeq(ratings), Len(ratings))],
                       component_distribution |->
                           [c \in comps |->
                               Cardinality({i \in 1..total_responses :
                                   Field(fieldnames, records[i],
                                         H_target_component) = c})]]

(***************************************************************************)
(* State.                                                                  *)
(***************************************************************************)
VARIABLES
    techniques,        \* agent.techniques, loaded once at construction
    pc,                \* position of the page script in the current submission
    user_goal,         \* the two text inputs of the submission
    user_barrier,
    pending,           \* the generate_content call in flight, or "none"
    response,          \* analyze_barrier's local: the reply it has parsed, kept
                       \* until run's next step; None when the call raised
    target_component,  \* run's local: what analyze_barrier returned
    classifyFailed,    \* the classification call raised
    technique,         \* run's local: what select_technique returned
    genFailed,         \* the generation call raised
    result,            \* what run returned, None before and when it returns None
    outcome,           \* "pending", "result", "none" (run returned None), "raised"
    events,            \* history: the calls and appends of this submission, in order
    prev,              \* history: the previous submission that produced a result
    runs,              \* submissions started
    fileExists,        \* the log file is on disk
    fileRows,          \* its rows, header included; <<>> when absent
    fm,                \* FeedbackManager: "new", "ready", "failed"
    saveResult,        \* what the last save_feedback returned: "none", "ok", "failed"
    stats,             \* what the last get_statistics returned
    statsState,        \* "never", "stale", "clean" (computed, no row saved
                       \* since), "again" (computed again, no row saved between)
    saved,             \* history: <<rating, would_try>> of the successful saves
    fresh,             \* history: this FeedbackManager created the file
    inst,              \* several processes: where each one is in constructing
                       \* its FeedbackManager: "new", "creating", "ready", "failed"
    overlap            \* history: a process tested for the file while another
                       \* one was between its test and its creating write

agentVars ==
    <<techniques, pc, user_goal, user_barrier, pending, response, target_component,
      classifyFailed, technique, genFailed, result, outcome, events, prev, runs>>

logVars ==
    <<fileExists, fileRows, fm, saveResult, stats, statsState, saved, fresh,
      inst, overlap>>

mpVars ==
    <<inst, overlap>>

vars ==
    <<techniques, pc, user_goal, user_barrier, pending, response, target_component,
      classifyFailed, technique, genFailed, result, outcome, events, prev, runs,
      fileExists, fileRows, fm, saveResult, stats, statsState, saved, fresh,
      inst, overlap>>

(***************************************************************************)
(* Inputs.                                                                 *)
(***************************************************************************)
\* the texts run is called with
Goals ==
    {<<>>, G_exercise, G_study}

Barriers ==
    {B_short, B_tired, B_time}

\* the texts typed into the page
PageGoals ==
    {<<>>, G_short, G_exercise}

PageBarriers ==
    {B_short, B_time}

Ratings ==
    MinRating..MaxRating

Intents ==
    {W_Yes, W_Maybe, W_No}

Clock ==
    1..MaxClock

\* the processes that share one log file
Procs ==
    1..NumProcs

\* a record written by an earlier process (the module's own test call)
OldRow ==
    FeedbackRow(0, G_exercise, B_tired, T_motivation, N_A, Th_BE, 4, T_yes, F_nice)

\* the log as the process may find it: absent, or left by an earlier process
InitialFiles ==
    {<<>>, <<Header>>, <<Header, OldRow>>}

\* a record whose rating column does not hold a number (the log is a plain
\* text file that any tool can write)
BadRow ==
    <<FormatTime(0), G_exercise, B_tired, T_motivation, N_A, Th_BE, T_na, T_yes, <<>>>>

\* the logs of InitialFiles, and a log holding such a record
EnvFiles ==
    InitialFiles \cup {<<Header, BadRow>>}

InitFrom(files) ==
    /\ techniques \in Catalogs
    /\ pc = "idle"
    /\ user_goal = <<>>
    /\ user_barrier = <<>>
    /\ pending = "none"
    /\ response = None
    /\ target_component = <<>>
    /\ classifyFailed = FALSE
    /\ technique = None
    /\ genFailed = FALSE
    /\ result = None
    /\ outcome = "pending"
    /\ events = <<>>
    /\ prev = None
    /\ runs = 0
    /\ fileRows \in files
    /\ fileExists = (fileRows /= <<>>)
    /\ fm = "new"
    /\ saveResult = "none"
    /\ stats = None
    /\ statsState = "never"
    /\ saved = <<>>
    /\ fresh = FALSE
    /\ inst = [p \in Procs |-> "new"]
    /\ overlap = FALSE

Init ==
    InitFrom(InitialFiles)

InitEnv ==
    InitFrom(EnvFiles)

(***************************************************************************)
(* FeedbackManager.                                                        *)
(***************************************************************************)
\* _initialize_csv: write the header unless the file exists
_initialize_csv(ioOk) ==
    IF fileExists
    THEN /\ fm' = "ready"
         /\ UNCHANGED <<fileExists, fileRows, fresh>>
    ELSE IF ioOk
         THEN /\ fileExists' = TRUE
              /\ fileRows' = <<Header>>
              /\ fresh' = TRUE
              /\ fm' = "ready"
         ELSE /\ fm' = "failed"
              /\ UNCHANGED <<fileExists, fileRows, fresh>>

\* FeedbackManager(): construction, once per process
FeedbackManager_init ==
    /\ fm = "new"
    /\ \E ioOk \in BOOLEAN : _initialize_csv(ioOk)
    /\ UNCHANGED <<saveResult, stats, statsState, saved>>
    /\ UNCHANGED mpVars
    /\ UNCHANGED agentVars

\* FeedbackManager.save_feedback; ioOk = FALSE when open or write raises
save_feedback(goal, barrier, component, technique_name, theory, rating, would_try, feedback_text, now, ioOk) ==
    IF ioOk
    THEN /\ fileRows' = AppendRow(fileExists, fileRows,
                            FeedbackRow(now, goal, barrier, component,
                                        technique_name, theory, rating,
                                        would_try, feedback_text))
         /\ fileExists' = TRUE
         /\ saveResult' = "ok"
         /\ saved' = Append(saved, <<rating, would_try>>)
         /\ statsState' = "stale"
         /\ UNCHANGED <<fm, stats, fresh>>
    ELSE /\ saveResult' = "failed"
         /\ UNCHANGED <<fileExists, fileRows, fm, stats, statsState, saved, fresh>>

\* the log has not changed since the last get_statistics
Unchanged ==
    statsState \in {"clean", "again"}

\* variant: the file is opened with 'w+' and read
get_statistics_truncating ==
    /\ stats' = Statistics(fileExists, fileRows)
    /\ statsState' = IF Unchanged THEN "again" ELSE "clean"
    /\ fileRows' = IF fileExists THEN <<>> ELSE fileRows
    /\ UNCHANGED <<fileExists, fm, saveResult, saved, fresh>>

\* FeedbackManager.get_statistics
get_statistics ==
    /\ stats' = Statistics(fileExists, fileRows)
    /\ statsState' = IF Unchanged THEN "again" ELSE "clean"
    /\ UNCHANGED <<fileExists, fileRows, fm, saveResult, saved, fresh>>

\* FeedbackManager.get_statistics when the file is there and open() or the
\* reading raises: the except clause prints and returns None
get_statistics_unreadable ==
    /\ fileExists
    /\ stats' = None
    /\ statsState' = "unread"
    /\ UNCHANGED <<fileExists, fileRows, fm, saveResult, saved, fresh>>

\* the log can take one more record
RoomInLog ==
    Len(Records(fileRows)) < MaxRecords

(***************************************************************************)
(* BehaviorChangeAgent.run, in steps: each generate_content call is issued *)
(* in one step and returns (or raises) in the next.                        *)
(***************************************************************************)
\* run is entered with the two texts
EnterRun(goal, barrier) ==
    /\ user_goal' = goal
    /\ user_barrier' = barrier
    /\ pending' = "none"
    /\ response' = None
    /\ target_component' = <<>>
    /\ classifyFailed' = FALSE
    /\ technique' = None
    /\ genFailed' = FALSE
    /\ result' = None
    /\ outcome' = "pending"
    /\ events' = <<>>

\* the locals are gone when the caller is done with them
LeaveRun ==
    /\ user_goal' = <<>>
    /\ user_barrier' = <<>>
    /\ pending' = "none"
    /\ response' = None
    /\ target_component' = <<>>
    /\ classifyFailed' = FALSE
    /\ technique' = None
    /\ genFailed' = FALSE
    /\ result' = None
    /\ outcome' = "pending"
    /\ events' = <<>>

\* analyze_barrier issues the classification call
run_analyze_call ==
    /\ pc = "analyze"
    /\ pending' = "classify"
    /\ events' = Append(events, "classify_call")
    /\ pc' = "analyze_wait"
    /\ UNCHANGED <<techniques, user_goal, user_barrier, response, target_component,
                   classifyFailed, technique, genFailed, result, outcome,
                   prev, runs>>
    /\ UNCHANGED logVars

\* the call returns or raises, analyze_barrier returns the category
run_analyze_return ==
    /\ pc = "analyze_wait"
    /\ pending = "classify"
    /\ \E reply \in ClassifyReplies :
          /\ response' = IF reply.fails THEN None ELSE reply
          /\ target_component' = analyze_barrier(reply)
          /\ classifyFailed' = reply.fails
          /\ pc' = AfterClassify(reply)
    /\ pending' = "none"
    /\ events' = Append(events, "classify_return")
    /\ UNCHANGED <<techniques, user_goal, user_barrier, technique, genFailed,
                   result, outcome, prev, runs>>
    /\ UNCHANGED logVars

\* select_technique, and the return of None when it yields nothing
run_select ==
    /\ pc = "select"
    /\ technique' = select_technique(techniques, user_barrier, target_component)
    /\ events' = Append(events, "select")
    /\ response' = None
    /\ IF technique' = None
       THEN /\ outcome' = "none"
            /\ pc' = "returned"
       ELSE /\ outcome' = outcome
            /\ pc' = "generate"
    /\ UNCHANGED <<techniques, user_goal, user_barrier, pending,
                   target_component, classifyFailed, genFailed, result,
                   prev, runs>>
    /\ UNCHANGED logVars

\* generate_intervention builds the prompt and issues the generation call
run_generate_call ==
    /\ pc = "generate"
    /\ IF RaisesBeforeCall(technique)
       THEN /\ outcome' = "raised"
            /\ pc' = "returned"
            /\ UNCHANGED <<pending, events>>
       ELSE /\ pending' = "generate"
            /\ events' = Append(events, "generate_call")
            /\ pc' = "generate_wait"
            /\ outcome' = outcome
    /\ UNCHANGED <<techniques, user_goal, user_barrier, response, target_component,
                   classifyFailed, technique, genFailed, result, prev, runs>>
    /\ UNCHANGED logVars

\* the call returns or raises, generate_intervention and run return
run_generate_return ==
    /\ pc = "generate_wait"
    /\ pending = "generate"
    /\ \E reply \in GenerateReplies :
          /\ genFailed' = reply.fails
          /\ IF generate_raises(technique, reply)
             THEN /\ outcome' = "raised"
                  /\ result' = result
             ELSE /\ outcome' = "result"
                  /\ result' = generate_intervention(user_goal, technique,
                                                     user_barrier, reply)
    /\ pending' = "none"
    /\ events' = Append(events, "generate_return")
    /\ pc' = "returned"
    /\ UNCHANGED <<techniques, user_goal, user_barrier, response, target_component,
                   classifyFailed, technique, prev, runs>>
    /\ UNCHANGED logVars

(***************************************************************************)
(* The page script: one submission is the button handler followed by the   *)
(* side panel.                                                             *)
(***************************************************************************)
ValidInput(goal, barrier) ==
    /\ goal /= <<>>
    /\ barrier /= <<>>
    /\ Len(goal) >= MinGoalLen
    /\ Len(barrier) >= MinBarrierLen

\* the generate button is pressed: validation, then agent.run
Click ==
    /\ pc = "idle"
    /\ fm = "ready"
    /\ runs < MaxSubmissions
    /\ \E goal \in PageGoals, barrier \in PageBarriers :
          /\ EnterRun(goal, barrier)
          /\ pc' = IF ValidInput(goal, barrier) THEN "analyze" ELSE "sidebar"
    /\ runs' = runs + 1
    /\ saveResult' = "none"
    /\ UNCHANGED <<techniques, prev, fileExists, fileRows, fm, stats,
                   statsState, saved, fresh>>
    /\ UNCHANGED mpVars

\* run returned None or raised: the page shows an error
ShowError ==
    /\ pc = "returned"
    /\ outcome \in {"none", "raised"}
    /\ pc' = "sidebar"
    /\ UNCHANGED <<techniques, user_goal, user_barrier, response, pending,
                   target_component, classifyFailed, technique, genFailed,
                   result, outcome, events, prev, runs>>
    /\ UNCHANGED logVars

\* the feedback form is submitted: save_feedback with the result's fields.
\* st.button returns a Boolean; both values are allowed here and in
\* SkipFeedback, whatever the widget library makes of a nested button.
SubmitFeedback ==
    /\ pc = "returned"
    /\ outcome = "result"
    /\ RoomInLog
    /\ \E rating \in Ratings, would_try \in Intents, now \in Clock,
          ioOk \in BOOLEAN :
          /\ save_feedback(user_goal, user_barrier, result.target_component,
                           result.technique_name, result.theory, rating,
                           would_try, <<>>, now, ioOk)
          /\ events' = IF ioOk THEN Append(events, "append") ELSE events
    /\ pc' = "sidebar"
    /\ UNCHANGED <<techniques, user_goal, user_barrier, response, pending,
                   target_component, classifyFailed, technique, genFailed,
                   result, outcome, prev, runs>>
    /\ UNCHANGED mpVars

\* the feedback form is left alone
SkipFeedback ==
    /\ pc = "returned"
    /\ outcome = "result"
    /\ pc' = "sidebar"
    /\ UNCHANGED <<techniques, user_goal, user_barrier, response, pending,
                   target_component, classifyFailed, technique, genFailed,
                   result, outcome, events, prev, runs>>
    /\ UNCHANGED logVars

\* the side panel: get_statistics at the end of every script run
Sidebar ==
    /\ pc = "sidebar"
    /\ get_statistics
    /\ pc' = "done"
    /\ UNCHANGED <<techniques, user_goal, user_barrier, response, pending,
                   target_component, classifyFailed, technique, genFailed,
                   result, outcome, events, prev, runs>>
    /\ UNCHANGED mpVars

\* the script run ends and the page waits for the next press
EndScript ==
    /\ pc = "done"
    /\ LeaveRun
    /\ pc' = "idle"
    /\ UNCHANGED <<techniques, prev, runs>>
    /\ UNCHANGED logVars

Next ==
    \/ FeedbackManager_init
    \/ Click
    \/ run_analyze_call
    \/ run_analyze_return
    \/ run_select
    \/ run_generate_call
    \/ run_generate_return
    \/ ShowError
    \/ SubmitFeedback
    \/ SkipFeedback
    \/ Sidebar
    \/ EndScript

Spec ==
    Init /\ [][Next]_vars

(***************************************************************************)
(* The agent used directly, as the module's own test block does: run is    *)
(* called with any two texts, one call after the other.                    *)
(***************************************************************************)
\* what is remembered of the previous call that returned a result
Summary ==
    [goal |-> user_goal, barrier |-> user_barrier, technique |-> technique,
     genFailed |-> genFailed, result |-> result]

RunCall ==
    /\ pc = "idle"
    /\ runs < MaxRuns
    /\ \E goal \in Goals, barrier \in Barriers : EnterRun(goal, barrier)
    /\ pc' = "analyze"
    /\ runs' = runs + 1
    /\ UNCHANGED <<techniques, prev>>
    /\ UNCHANGED logVars

RunReturn ==
    /\ pc = "returned"
    /\ prev' = IF outcome = "result" THEN Summary ELSE prev
    /\ LeaveRun
    /\ pc' = "idle"
    /\ UNCHANGED <<techniques, runs>>
    /\ UNCHANGED logVars

NextAgent ==
    \/ RunCall
    \/ run_analyze_call
    \/ run_analyze_return
    \/ run_select
    \/ run_generate_call
    \/ run_generate_return
    \/ RunReturn

SpecAgent ==
    Init /\ [][NextAgent]_vars

(***************************************************************************)
(* The feedback log used directly, as the module's own test does:          *)
(* construction, then save_feedback and get_statistics in any order.       *)
(***************************************************************************)
\* the technique a caller reports feedback on
ReportedTechniques ==
    {TechC}

SaveFeedbackCall ==
    /\ fm = "ready"
    /\ RoomInLog
    /\ \E tech \in ReportedTechniques, rating \in Ratings, would_try \in Intents,
          now \in Clock, ioOk \in BOOLEAN :
          save_feedback(G_exercise, B_tired, tech.target_component, tech.name,
                        tech.theory, rating, would_try, <<>>, now, ioOk)
    /\ UNCHANGED agentVars
    /\ UNCHANGED mpVars

GetStatisticsCall ==
    /\ fm = "ready"
    /\ get_statistics
    /\ UNCHANGED agentVars
    /\ UNCHANGED mpVars

NextLog ==
    \/ FeedbackManager_init
    \/ SaveFeedbackCall
    \/ GetStatisticsCall

SpecLog ==
    Init /\ [][NextLog]_vars

(***************************************************************************)
(* The feedback log in its environment: the file is an ordinary file that  *)
(* may be unreadable at the moment of a call, and that may be removed      *)
(* between two calls (the existence tests of _initialize_csv and of        *)
(* get_statistics are there for the absent file).                         *)
(***************************************************************************)
\* the answers a caller of this specification gives
EnvRatings ==
    {MinRating, MaxRating}
EnvIntents ==
    {W_Yes, W_No}

SaveFeedbackEnv ==
    /\ fm = "ready"
    /\ RoomInLog
    /\ Len(saved) < MaxRecords
    /\ \E tech \in ReportedTechniques, rating \in EnvRatings, would_try \in EnvIntents,
          now \in Clock, ioOk \in BOOLEAN :
          save_feedback(G_exercise, B_tired, tech.target_component, tech.name,
                        tech.theory, rating, would_try, <<>>, now, ioOk)
    /\ UNCHANGED agentVars
    /\ UNCHANGED mpVars

GetStatisticsUnreadable ==
    /\ fm = "ready"
    /\ get_statistics_unreadable
    /\ UNCHANGED agentVars
    /\ UNCHANGED mpVars

\* the file is removed by something other than the FeedbackManager
ExternalRemove ==
    /\ fileExists
    /\ fileExists' = FALSE
    /\ fileRows' = <<>>
    /\ statsState' = IF statsState = "never" THEN "never" ELSE "stale"
    /\ fresh' = FALSE
    /\ UNCHANGED <<fm, saveResult, stats, saved>>
    /\ UNCHANGED agentVars
    /\ UNCHANGED mpVars

NextEnv ==
    \/ FeedbackManager_init
    \/ SaveFeedbackEnv
    \/ GetStatisticsCall
    \/ GetStatisticsUnreadable
    \/ ExternalRemove

SpecEnv ==
    InitEnv /\ [][NextEnv]_vars

(***************************************************************************)
(* Several processes on one log file that is absent at first: each one     *)
(* constructs its FeedbackManager, the test for the file and the creating  *)
(* write being two steps, and then records feedback.                       *)
(***************************************************************************)
InitMP ==
    InitFrom({<<>>})

\* variant: the file is created without a test
AfterExistsCheck_blind(exists) ==
    "creating"

\* if not os.path.exists(self.filename): where construction goes next
AfterExistsCheck(exists) ==
    IF exists THEN "ready" ELSE "creating"

\* process p evaluates os.path.exists
MP_Check(p) ==
    /\ inst[p] = "new"
    /\ inst' = [inst EXCEPT ![p] = AfterExistsCheck(fileExists)]
    /\ overlap' = (overlap \/ \E q \in Procs \ {p} : inst[q] = "creating")
    /\ UNCHANGED <<fileExists, fileRows, fm, saveResult, stats, statsState,
                   saved, fresh>>
    /\ UNCHANGED agentVars

\* process p opens the file with 'w' and writes the header: a file that is
\* there by now is emptied; ioOk = FALSE when open raises
MP_Create(p) ==
    /\ inst[p] = "creating"
    /\ \E ioOk \in BOOLEAN :
          IF ioOk
          THEN /\ fileExists' = TRUE
               /\ fileRows' = <<Header>>
               /\ inst' = [inst EXCEPT ![p] = "ready"]
          ELSE /\ inst' = [inst EXCEPT ![p] = "failed"]
               /\ UNCHANGED <<fileExists, fileRows>>
    /\ UNCHANGED <<fm, saveResult, stats, statsState, saved, fresh, overlap>>
    /\ UNCHANGED agentVars

\* the goal process p reports on
ProcGoal(p) ==
    IF p = 1 THEN G_exercise ELSE G_study

\* process p records one feedback
MP_Save(p) ==
    /\ inst[p] = "ready"
    /\ RoomInLog
    /\ Len(saved) < MaxRecords
    /\ \E tech \in ReportedTechniques, rating \in EnvRatings, would_try \in EnvIntents,
          now \in Clock, ioOk \in BOOLEAN :
          save_feedback(ProcGoal(p), B_tired, tech.target_component, tech.name,
                        tech.theory, rating, would_try, <<>>, now, ioOk)
    /\ UNCHANGED mpVars
    /\ UNCHANGED agentVars

NextMP ==
    \/ \E p \in Procs : MP_Check(p)
    \/ \E p \in Procs : MP_Create(p)
    \/ \E p \in Procs : MP_Save(p)

SpecMP ==
    InitMP /\ [][NextMP]_vars

(***************************************************************************)
(* Properties.                                                             *)
(***************************************************************************)
\* number of occurrences of e in the history q
Count(q, e) ==
    Cardinality({i \in 1..Len(q) : q[i] = e})

\* analyze_barrier has returned in the current call of run
Classified ==
    Count(events, "classify_return") > 0

\* select_technique has returned in the current call of run
Selected ==
    Count(events, "select") > 0

\* C1: whatever the classification call answers, and when it fails,
\* analyze_barrier returns one of 'capability', 'opportunity', 'motivation';
\* a failed call gives 'motivation', and the call was issued exactly once.
C1_ClassifierTotal ==
    Classified =>
        /\ target_component \in
              {T_capability, T_opportunity, T_motivation}
        /\ classifyFailed => target_component = T_motivation
        /\ Count(events, "classify_call") = 1

C1_Witness ==
    /\ Classified
    /\ classifyFailed
    /\ target_component = T_motivation
    /\ pc = "select"

\* the catalog positions whose category is the classified one and one of
\* whose keywords occurs in the lower-cased barrier
KeywordMatches ==
    {i \in 1..Len(techniques) :
        /\ techniques[i].target_component = target_component
        /\ \E k \in 1..Len(techniques[i].barrier_keywords) :
              Contains(techniques[i].barrier_keywords[k], lower(user_barrier))}

\* the catalog positions whose category is the classified one
CategoryMatches ==
    {i \in 1..Len(techniques) :
        techniques[i].target_component = target_component}

Least(S) ==
    CHOOSE i \in S : \A j \in S : i <= j

Last(q) ==
    q[Len(q)]

\* C2: on a non-empty catalog select_technique returns the first entry of
\* the category with a keyword in the lower-cased barrier, else the first
\* entry of the category, else the first entry of the catalog.
C2_SelectionRule ==
    (Selected /\ techniques /= <<>>) =>
        technique =
            IF KeywordMatches /= {} THEN techniques[Least(KeywordMatches)]
            ELSE IF CategoryMatches /= {} THEN techniques[Least(CategoryMatches)]
            ELSE techniques[1]

\* the keyword entry is preferred to an earlier entry of the same category,
\* and the keyword is found in a barrier typed with a capital letter
C2_Witness ==
    /\ Selected
    /\ techniques = <<TechB, TechA, TechC>>
    /\ user_barrier = B_tired
    /\ target_component = T_motivation
    /\ technique = TechA

\* C3: select_technique yields nothing exactly when the catalog is empty;
\* run then returns None without issuing the generation call; on a
\* non-empty catalog the technique returned is an entry of the catalog.
C3_EmptyCatalogOnly ==
    Selected =>
        /\ (technique = None) <=> (techniques = <<>>)
        /\ techniques /= <<>> =>
              \E i \in 1..Len(techniques) : technique = techniques[i]
        /\ techniques = <<>> =>
              /\ pc = "returned"
              /\ outcome = "none"
              /\ result = None
              /\ Count(events, "generate_call") = 0
              /\ pending = "none"

C3_Witness ==
    /\ Selected
    /\ techniques = <<>>
    /\ pc = "returned"
    /\ outcome = "none"

\* the ratings of the successful saves, added up
RECURSIVE SavedRatingSum(_)
SavedRatingSum(q) ==
    IF q = <<>> THEN 0 ELSE Head(q)[1] + SavedRatingSum(Tail(q))

\* the successful saves whose trial-intent was Yes or Maybe
SavedWouldTry(q) ==
    Cardinality({i \in 1..Len(q) : q[i][2] \in {W_Yes, W_Maybe}})

\* C4: on a log this FeedbackManager created, after N >= 1 successful
\* save_feedback calls get_statistics returns total_responses = N,
\* average_rating = (sum of the ratings) / N and would_try_percent =
\* (number of Yes or Maybe) / N * 100; (4, Yes), (2, No) give 2, 3.0, 50.0.
C4_StatisticsRoundTrip ==
    (fresh /\ Unchanged /\ Len(saved) >= 1) =>
        /\ stats /= None
        /\ stats.total_responses = Len(saved)
        /\ stats.average_rating[1] * Len(saved)
              = SavedRatingSum(saved) * stats.average_rating[2]
        /\ stats.would_try_percent[1] * Len(saved)
              = 100 * SavedWouldTry(saved) * stats.would_try_percent[2]
        /\ saved = <<<<4, W_Yes>>, <<2, W_No>>>> =>
              /\ stats.total_responses = 2
              /\ stats.average_rating = <<3, 1>>
              /\ stats.would_try_percent = <<50, 1>>

C4_Witness ==
    /\ fresh
    /\ Unchanged
    /\ saved = <<<<4, W_Yes>>, <<2, W_No>>>>
    /\ stats /= None

\* C5: a successful save_feedback leaves the rows that were in the log in
\* place, unchanged and in order, and adds exactly one row after them; no
\* step of construction, save_feedback or get_statistics removes or
\* changes a row that was written.
C5_AppendOnly ==
    [][/\ fileExists =>
            /\ fileExists'
            /\ Len(fileRows') >= Len(fileRows)
            /\ SubSeq(fileRows', 1, Len(fileRows)) = fileRows
       /\ (saveResult' = "ok" /\ saved' /= saved) =>
            /\ Len(fileRows') = Len(fileRows) + 1
            /\ SubSeq(fileRows', 1, Len(fileRows)) = fileRows]_vars

\* a row left by an earlier process is still in place after a save
C5_Witness ==
    /\ saveResult = "ok"
    /\ Len(saved) = 1
    /\ Len(fileRows) = 3
    /\ fileRows[1] = Header
    /\ fileRows[2] = OldRow

\* C6: get_statistics called again with no row saved since the last call
\* returns what the last call returned, and leaves the log as it was.
C6_StatisticsRepeatable ==
    [][(Unchanged /\ statsState' = "again") =>
            /\ stats' = stats
            /\ fileRows' = fileRows
            /\ fileExists' = fileExists]_vars

C6_Witness ==
    /\ statsState = "again"
    /\ stats /= None
    /\ stats.total_responses = 2

\* the position of the first occurrence of sep in s, 0 when there is none
FirstAt(s, sep) ==
    LET at == {i \in 1..Len(s) : OccursAt(sep, s, i)}
    IN  IF at = {} THEN 0 ELSE Least(at)

RECURSIVE Pieces(_, _)
\* the parts of s between the occurrences of sep
Pieces(s, sep) ==
    IF FirstAt(s, sep) = 0 THEN <<s>>
    ELSE <<SubSeq(s, 1, FirstAt(s, sep) - 1)>>
            \o Pieces(SubSeq(s, FirstAt(s, sep) + Len(sep), Len(s)), sep)

RECURSIVE JoinWith(_, _)
\* the parts put together with glue between them
JoinWith(parts, glue) ==
    IF Len(parts) = 1 THEN parts[1]
    ELSE parts[1] \o glue \o JoinWith(Tail(parts), glue)

\* the fixed prefix, the goal, and the template with the goal in the place
\* of every placeholder
ExpectedFallback(goal, template) ==
    T_prefix \o goal \o T_sep \o JoinWith(Pieces(template, T_placeholder), goal)

\* C7: when the generation call fails the message is the fixed prefix, the
\* goal and the template with the goal substituted; two calls with the
\* same goal and technique give the same message whatever the barriers;
\* 'Try pairing [GOAL] with something fun.' with 'exercise more' gives a
\* text containing 'Try pairing exercise more with something fun.'.
C7_FallbackDeterministic ==
    (outcome = "result" /\ genFailed) =>
        /\ result.intervention_text
              = ExpectedFallback(user_goal, technique.prompt_template)
        /\ (/\ prev /= None
            /\ prev.genFailed
            /\ prev.goal = user_goal
            /\ prev.technique = technique) =>
                prev.result.intervention_text = result.intervention_text
        /\ (technique.prompt_template = P_pair /\ user_goal = G_exercise) =>
                Contains(P_pair_filled, result.intervention_text)

C7_Witness ==
    /\ outcome = "result"
    /\ genFailed
    /\ prev /= None
    /\ prev.genFailed
    /\ prev.goal = user_goal
    /\ prev.technique = technique
    /\ prev.barrier /= user_barrier
    /\ technique.prompt_template = P_pair
    /\ user_goal = G_exercise

\* every entry of the catalog has the seven fields
WellFormedCatalog ==
    \A i \in 1..Len(techniques) : WellFormed(techniques[i])

\* C8: on a non-empty catalog of well-formed techniques run returns an
\* intervention whether the classification call and the generation call
\* succeed or fail, and raises nothing: a failed classification gives the
\* default category, a failed generation the fallback message.
C8_RunAlwaysProduces ==
    (pc = "returned" /\ techniques /= <<>> /\ WellFormedCatalog) =>
        /\ outcome = "result"
        /\ result /= None
        /\ classifyFailed => target_component = T_motivation
        /\ genFailed =>
              result.intervention_text
                 = ExpectedFallback(user_goal, technique.prompt_template)

C8_Witness ==
    /\ pc = "returned"
    /\ techniques /= <<>>
    /\ WellFormedCatalog
    /\ classifyFailed
    /\ genFailed
    /\ outcome = "result"

\* the fields of a result other than the message
Echo(r) ==
    <<r.technique_name, r.theory, r.duration_minutes, r.evidence,
      r.target_component>>

\* C9: the result of generate_intervention carries the name, theory,
\* duration, evidence and category of the technique it was given, on the
\* primary path and on the fallback path alike.
C9_MetadataEchoed ==
    outcome = "result" =>
        /\ Echo(result) = <<technique.name, technique.theory,
                            technique.duration_minutes,
                            technique.evidence_base,
                            technique.target_component>>
        /\ (prev /= None /\ prev.technique = technique) =>
                Echo(prev.result) = Echo(result)

\* the same technique, once on the primary path and once on the fallback path
C9_Witness ==
    /\ outcome = "result"
    /\ genFailed
    /\ prev /= None
    /\ prev.technique = technique
    /\ ~prev.genFailed
    /\ prev.result.intervention_text /= result.intervention_text

\* e happens before f in the history q, whenever f happens
Before(q, e, f) ==
    \A i \in 1..Len(q) : q[i] = f => \E j \in 1..(i - 1) : q[j] = e

\* C10: in one submission the text-generation service is called at most
\* twice, each of the two calls at most once; the classification call has
\* returned before the technique is selected and before the generation
\* call is issued; at most one row is appended to the log.
C10_SubmissionCalls ==
    /\ [](/\ Count(events, "classify_call") <= 1
          /\ Count(events, "generate_call") <= 1
          /\ Count(events, "classify_call") + Count(events, "generate_call") <= 2
          /\ Count(events, "append") <= 1
          /\ Before(events, "classify_call", "classify_return")
          /\ Before(events, "classify_return", "select")
          /\ Before(events, "select", "generate_call")
          /\ Before(events, "generate_call", "generate_return")
          /\ Before(events, "generate_return", "append")
          /\ pending = "generate" => Classified /\ Selected)
    /\ [][fileRows' /= fileRows =>
            \/ FeedbackManager_init
            \/ /\ fileRows' = Append(fileRows, Last(fileRows'))
               /\ events' = Append(events, "append")]_vars

C10_Witness ==
    /\ pc = "sidebar"
    /\ classifyFailed
    /\ genFailed
    /\ events = <<"classify_call", "classify_return", "select",
                  "generate_call", "generate_return", "append">>

\* the texts csv.writer writes for the ratings of the page
RatingTexts ==
    {FormatInt(r) : r \in Ratings}

\* the cases of 'no data': the file is absent, it holds no record, its first
\* row does not name the columns, or a record has a rating that is no number
NoData ==
    \/ ~fileExists
    \/ Len(fileRows) <= 1
    \/ fileRows[1] /= Header
    \/ \E i \in 2..Len(fileRows) : fileRows[i][7] \notin RatingTexts

\* C11: get_statistics hands its caller a value and never an exception: the
\* value is 'no data' (None) when reading failed, when the log is absent,
\* holds no record, or holds a record the computation fails on (a single
\* rating that is no number is enough); in every other case it is an
\* aggregate over all the records of the log.
C11_StatisticsTotal ==
    /\ stats = None \/ "total_responses" \in DOMAIN stats
    /\ statsState = "unread" => stats = None
    /\ Unchanged =>
          IF NoData THEN stats = None
          ELSE /\ stats /= None
               /\ stats.total_responses = Len(fileRows) - 1

\* a log of two records, one of them with a rating that is no number, was
\* read and gave no statistics
C11_Witness ==
    /\ Unchanged
    /\ fileExists
    /\ Len(fileRows) = 3
    /\ fileRows[1] = Header
    /\ fileRows[2] = BadRow
    /\ fileRows[3][7] \in RatingTexts
    /\ stats = None

\* a row as save_feedback writes it: one field for each column, and not the
\* row of the column names
IsRecord(row) ==
    Len(row) = Len(Header) /\ row /= Header

\* C12: the log is created with the fixed header on first use when absent,
\* and an existing log is left as it is; so whenever the log file exists its
\* first row is the fixed header and every later row is a feedback record,
\* also after a save_feedback that found the file absent.
\* save_feedback opens the file with 'a' and writes the record only: a file
\* absent at that moment is created without the header.
C12_HeaderFirst ==
    fileExists =>
        /\ fileRows /= <<>>
        /\ fileRows[1] = Header
        /\ \A i \in 2..Len(fileRows) : IsRecord(fileRows[i])

\* the reply analyze_barrier has just parsed, in lower case
Answer ==
    lower(response.text)

\* C13: a reply that was received is parsed by substring tests that ignore
\* case, in this order: a reply containing 'capab' gives 'capability', also
\* when it contains 'opportun' or 'motivation'; one without 'capab' that
\* contains 'opportun' gives 'opportunity'; every other reply, the empty one
\* included, gives 'motivation'.
C13_OrderedParsing ==
    response /= None =>
        /\ Contains(T_capab, Answer) => target_component = T_capability
        /\ ~Contains(T_capab, Answer) /\ Contains(T_opportun, Answer)
              => target_component = T_opportunity
        /\ ~Contains(T_capab, Answer) /\ ~Contains(T_opportun, Answer)
              => target_component = T_motivation
        /\ response.text = <<>> => target_component = T_motivation

\* the reply names 'Opportunity' before 'capability' and is classified as
\* capability
C13_Witness ==
    /\ response /= None
    /\ response.text = R_both
    /\ Contains(T_opportun, Answer)
    /\ target_component = T_capability
    /\ pc = "select"

\* every row whose save_feedback returned True is in the log: the records
\* of the log are the saved answers, in the order of the saves
RowsKept ==
    LET records == Records(fileRows)
    IN  /\ Len(records) = Len(saved)
        /\ \A i \in 1..Len(saved) :
              /\ records[i][7] = FormatInt(saved[i][1])
              /\ records[i][8] = saved[i][2]

\* C14: with one FeedbackManager (no other process has started to construct
\* one) every row that was saved with success is in the log in all later
\* states, and so it is whenever no process tested for the file while another
\* one was between its test and its creating write; the test and the write
\* are two steps, and when they interleave a saved row can be gone (the
\* state of C14_Witness).
C14_SingleWriterKeeps ==
    /\ (\E p \in Procs : \A q \in Procs \ {p} : inst[q] = "new") => RowsKept
    /\ ~overlap => RowsKept

\* both processes found the file absent; one created it and recorded a row
\* with success, then the other one's creating write emptied the log
C14_Witness ==
    /\ overlap
    /\ \A p \in Procs : inst[p] = "ready"
    /\ saveResult = "ok"
    /\ Len(saved) = 1
    /\ fileRows = <<Header>>

\* C15: when run returns a result, the category in the result is that of the
\* technique selected; it is the category analyze_barrier returned whenever
\* the catalog holds a technique of that category, and it differs from it
\* only when the catalog holds none, the technique then being the first
\* entry of the catalog.
C15_ResultCategory ==
    outcome = "result" =>
        /\ result.target_component = technique.target_component
        /\ CategoryMatches /= {} => result.target_component = target_component
        /\ result.target_component /= target_component =>
              /\ CategoryMatches = {}
              /\ technique = techniques[1]

\* the barrier is classified as motivation, the catalog has no technique of
\* that category, and the result carries the category of the first entry
C15_Witness ==
    /\ outcome = "result"
    /\ techniques = <<TechC, TechD>>
    /\ target_component = T_motivation
    /\ CategoryMatches = {}
    /\ result.target_component = T_capability


====
